---- MODULE Spec2Model ----
(***************************************************************************)
(* Model of the DigiKey client: DgkeySdk (src/main.py) and                 *)
(* ProductDetailsAPI (src/product_details_api.py).                         *)
(*                                                                         *)
(* Spec        one run of DgkeySdk.search_products on a healthy disk:      *)
(*             pagination, the retry loop of _search_product, token_update *)
(*             and the JSON store of process_products; the process may be  *)
(*             killed at any step.                                         *)
(* SpecStore   DgkeySdk.process_products called directly, on any content   *)
(*             of the file, with I/O faults and a process crash.           *)
(* SpecDetail  one run of ProductDetailsAPI.bulk_get_product_details:      *)
(*             get_product_details and the two stores of                   *)
(*             process_and_store_product_details, with I/O faults and a    *)
(*             process crash.                                              *)
(***************************************************************************)
EXTENDS Integers, Sequences, FiniteSets, TLC

\* ---------------------------------------------------------------- constants
limit == 50
max_retries == 10
backoff_factor == 2
token_update_sleep == 5
max_retries_details == 3
backoff_factor_details == 2

\* ------------------------------------------------------------------- bounds
MaxKeywords == 2
MaxPages == 2
MaxDeepPages == 4
MaxMints == 1
MaxFaults == 1
MaxAppends == 2
MaxPeerAppends == 1
MaxProducts == 2

\* ------------------------------------------------------------------ helpers
RECURSIVE Pow(_, _)
Pow(b, e) == IF e = 0 THEN 1 ELSE b * Pow(b, e - 1)

CeilDiv(a, b) == (a + b - 1) \div b

Max(a, b) == IF a >= b THEN a ELSE b

Min(a, b) == IF a <= b THEN a ELSE b

IsPrefix(s, t) == Len(s) <= Len(t) /\ \A i \in 1..Len(s) : s[i] = t[i]

\* ------------------------------------------------------------------- vendor
\* total_count values the vendor may report when it holds at most n pages:
\* the page boundaries and one past
TotalsUpTo(n) ==
  {0} \cup {p * limit : p \in 1..(n - 1)}
      \cup {p * limit + 1 : p \in 0..(n - 1)}

Totals == TotalsUpTo(MaxPages)

\* the items of the page at off when the vendor holds t matching products
VendorItems(off, t) ==
  [i \in 1..Max(0, Min(limit, t - off)) |-> off + i]

\* the outcomes of a detail request that end in an except block: a server
\* error (HTTPError), or no response at all (RequestException, written 0)
FailStatuses == {500, 0}

\* requests.post failing in _search_product: every failure takes the one
\* except block, 500 stands for them
SearchFailStatuses == {500}

\* the value of `{}`, the empty dict _search_product returns on exhaustion
EmptyDict == [empty |-> TRUE, ProductsCount |-> 0, Products |-> <<>>]

\* the parsed body of a 2xx keyword-search response
SearchBody(off, t) ==
  [empty |-> FALSE, ProductsCount |-> t, Products |-> VendorItems(off, t)]

\* ---------------------------------------------------------------- the files
AbsentFile == [kind |-> "absent", data |-> <<>>]

CorruptFile == [kind |-> "corrupt", data |-> <<>>]

ListFile(c) == [kind |-> "list", data |-> c]

ObjectFile(o) == [kind |-> "object", data |-> <<o>>]

VARIABLES
  categories,     \* search_products: the keyword sequence
  ci,             \* search_products: index of the keyword of the for loop
  offset,         \* search_products: offset of the while loop
  response,       \* search_products: what _search_product returned
  pc,             \* position of the process
  tokenFile,      \* token_storage.json: 0 when absent, else the token in it,
                  \* the n-th token the vendor issued
  access_token,   \* _search_product / get_product_details: token of headers
  retries,        \* retry loop counter of the running call
  http,           \* HTTP requests of the running call, in order
  sent,           \* the last HTTP request of the running call
  sleeps,         \* time.sleep calls of the running call, in order
  refreshes,      \* token_update calls of the running call, in order
  pages,          \* _search_product calls of the keyword that returned
  fetched,        \* the pages the run fetched: the requests answered 2xx
  vendor,         \* the total_count values the vendor reports in the run
  run_file0,      \* api_responses.json as it was when the run began
  file,           \* api_responses.json
  batch_data,     \* process_products: the batch being stored
  existing_data,  \* process_products: the collection being rebuilt
  file0,          \* api_responses.json as it was when process_products began
  stored,         \* outcome of the last process_products: ok / fallback / none
  store_result,   \* what the last process_products returned to its caller
  printed,        \* products the running process_products printed
  committed,      \* the batches of the appends that completed, in order
  fault,          \* the I/O fault that hit the running store operation
  faults,         \* injected I/O faults so far
  disk,           \* healthy, or flaky: I/O on the store files may fail
  appends,        \* direct calls of process_products so far
  peer,           \* a second process that runs process_products on the file
  product_numbers,       \* bulk_get_product_details: the input list
  pn,                    \* bulk_get_product_details: index of the for loop
  results,               \* bulk_get_product_details: the list it returns
  api_response,          \* what get_product_details returned
  mapped_product,        \* what process_and_store_product_details returns
  mapped_file,           \* product_details_mapped.json
  raw_file,              \* product_details_raw.json
  existing_mapped_data,  \* the mapped collection being rebuilt
  existing_raw_data,     \* the raw collection being rebuilt
  mfile0,                \* product_details_mapped.json when the store began
  rfile0,                \* product_details_raw.json when the store began
  mcommitted,            \* entries of the completed mapped appends, in order
  rcommitted,            \* entries of the completed raw appends, in order
  dstored                \* outcome of the last detail store: ok/failed/none

vars == <<categories, ci, offset, response, pc, tokenFile, access_token,
          retries, http, sent, sleeps, refreshes, pages, fetched, vendor,
          run_file0, file, batch_data, existing_data, file0, stored,
          store_result, printed, committed, fault, faults, disk, peer, appends,
          product_numbers, pn, results, api_response, mapped_product,
          mapped_file, raw_file, existing_mapped_data, existing_raw_data,
          mfile0, rfile0, mcommitted, rcommitted, dstored>>

callVars == <<access_token, retries, http, sent, sleeps, refreshes>>

storeVars == <<file, batch_data, existing_data, file0, stored, store_result,
               printed, committed, fault, faults, disk, peer, appends>>

searchVars == <<categories, ci, offset, response, pages, fetched, vendor,
                run_file0>>

detailVars == <<product_numbers, pn, results, api_response, mapped_product,
                mapped_file, raw_file, existing_mapped_data,
                existing_raw_data, mfile0, rfile0, mcommitted, rcommitted,
                dstored>>

NoBatch == [metadata |-> [url |-> <<0, 0>>, offset |-> 0, limit |-> 0,
                          product_count |-> 0],
            products |-> <<>>]

\* ------------------------------------------------------------ search_products
\* ForCategory that does not restart the offset of the new keyword
ForCategory_KeepOffset ==
  /\ pc = "main"
  /\ IF ci <= Len(categories)
       THEN /\ offset' = offset
            /\ pages' = <<>>
            /\ pc' = "call"
       ELSE /\ pc' = "done"
            /\ UNCHANGED <<offset, pages>>
  /\ UNCHANGED <<categories, vendor, run_file0, ci, response, tokenFile,
                 fetched>>
  /\ UNCHANGED callVars
  /\ UNCHANGED storeVars
  /\ UNCHANGED detailVars

\* for category in categories: offset = 0
ForCategory ==
  /\ pc = "main"
  /\ IF ci <= Len(categories)
       THEN /\ offset' = 0
            /\ pages' = <<>>
            /\ pc' = "call"
       ELSE /\ pc' = "done"
            /\ UNCHANGED <<offset, pages>>
  /\ UNCHANGED <<categories, vendor, run_file0, ci, response, tokenFile,
                 fetched>>
  /\ UNCHANGED callVars
  /\ UNCHANGED storeVars
  /\ UNCHANGED detailVars

\* ------------------------------------------------------------ _search_product
\* one call of token_update: where it was made and how it ended
Refresh(where, outcome) == [at |-> where, outcome |-> outcome]

\* a token_update has completed in the running call
Refreshed ==
  \E i \in 1..Len(refreshes) : refreshes[i].outcome = "ok"

\* no request sent yet
NoRequest == [token |-> 0, latest |-> 0, refreshed |-> FALSE]

\* access_token = self.get_access_token(): token_update when the file is
\* absent, then the token the file holds; the headers are built once, here
GetAccessToken ==
  /\ pc = "call"
  /\ retries' = 0
  /\ http' = <<>>
  /\ sent' = NoRequest
  /\ IF tokenFile # 0
       THEN /\ access_token' = tokenFile
            /\ sleeps' = <<>>
            /\ refreshes' = <<>>
            /\ pc' = "attempt"
            /\ UNCHANGED tokenFile
       ELSE \/ /\ tokenFile' = 1
               /\ access_token' = 1
               /\ refreshes' = <<Refresh("get_access_token", "ok")>>
               /\ sleeps' = <<[at |-> "token_update",
                               secs |-> token_update_sleep]>>
               /\ pc' = "attempt"
            \/ /\ refreshes' = <<Refresh("get_access_token", "raised")>>
               /\ pc' = "raised"
               /\ sleeps' = <<>>
               /\ UNCHANGED <<tokenFile, access_token>>
  /\ UNCHANGED <<categories, vendor, run_file0, ci, offset, response, pages,
                 fetched>>
  /\ UNCHANGED storeVars
  /\ UNCHANGED detailVars

\* the duration of the backoff sleep after the r-th failure
Backoff(r) == Pow(backoff_factor, r)

\* the token the request of this attempt carries
HeaderToken == access_token

\* an HTTP request of the running call: the status of its response (0 when
\* the request raised without one), the token it carried and the sleeps
\* made when it was sent
Request(st) ==
  [status |-> st, token |-> HeaderToken, slept |-> Len(sleeps)]

\* the request being sent: its token, the token the token file holds at
\* that moment, and whether a token_update of the call has completed
Sent == [token |-> HeaderToken, latest |-> tokenFile, refreshed |-> Refreshed]

\* a page request answered 2xx: its offset and limit, and the number of
\* items of the page it returned
PageFetched(off, lim, t) ==
  [offset |-> off, limit |-> lim, items |-> Len(VendorItems(off, t))]

\* Attempt that sleeps once more before it returns the parsed body
Attempt_SleepsAfterSuccess ==
  /\ pc = "attempt"
  /\ retries < max_retries
  /\ sent' = Sent
  /\ \/ \E t \in vendor :
          /\ http' = Append(http, Request(200))
          /\ response' = SearchBody(offset, t)
          /\ pages' = Append(pages, [kw |-> ci, offset |-> offset,
                                     limit |-> limit, total |-> t])
          /\ fetched' = Append(fetched, PageFetched(offset, limit, t))
          /\ pc' = "returned"
          /\ sleeps' = Append(sleeps, [at |-> "backoff",
                                       secs |-> Backoff(retries + 1)])
          /\ UNCHANGED retries
     \/ /\ \E st \in SearchFailStatuses : http' = Append(http, Request(st))
        /\ retries' = retries + 1
        /\ sleeps' = Append(sleeps, [at |-> "backoff",
                                     secs |-> Backoff(retries + 1)])
        /\ pc' = "token_update"
        /\ UNCHANGED <<response, pages, fetched>>
  /\ UNCHANGED <<categories, vendor, run_file0, ci, offset, tokenFile,
                 access_token, refreshes>>
  /\ UNCHANGED storeVars
  /\ UNCHANGED detailVars

\* one pass of `while retries < max_retries`: requests.post, then either the
\* return of the parsed body or the except block up to time.sleep(backoff)
Attempt ==
  /\ pc = "attempt"
  /\ retries < max_retries
  /\ sent' = Sent
  /\ \/ \E t \in vendor :
          /\ http' = Append(http, Request(200))
          /\ response' = SearchBody(offset, t)
          /\ pages' = Append(pages, [kw |-> ci, offset |-> offset,
                                     limit |-> limit, total |-> t])
          /\ fetched' = Append(fetched, PageFetched(offset, limit, t))
          /\ pc' = "returned"
          /\ UNCHANGED <<retries, sleeps>>
     \/ /\ \E st \in SearchFailStatuses : http' = Append(http, Request(st))
        /\ retries' = retries + 1
        /\ sleeps' = Append(sleeps, [at |-> "backoff",
                                     secs |-> Backoff(retries + 1)])
        /\ pc' = "token_update"
        /\ UNCHANGED <<response, pages, fetched>>
  /\ UNCHANGED <<categories, vendor, run_file0, ci, offset, tokenFile,
                 access_token, refreshes>>
  /\ UNCHANGED storeVars
  /\ UNCHANGED detailVars

\* self.token_update() of the except block: the vendor library mints a new
\* token, keeps a token that is still valid, or raises; then time.sleep(5)
TokenUpdate ==
  /\ pc = "token_update"
  /\ \/ /\ tokenFile <= MaxMints
        /\ tokenFile' = tokenFile + 1
        /\ refreshes' = Append(refreshes, Refresh("retry", "ok"))
        /\ sleeps' = Append(sleeps, [at |-> "token_update",
                                     secs |-> token_update_sleep])
        /\ pc' = "attempt"
     \/ /\ tokenFile # 0
        /\ refreshes' = Append(refreshes, Refresh("retry", "ok"))
        /\ sleeps' = Append(sleeps, [at |-> "token_update",
                                     secs |-> token_update_sleep])
        /\ pc' = "attempt"
        /\ UNCHANGED tokenFile
     \/ /\ refreshes' = Append(refreshes, Refresh("retry", "raised"))
        /\ pc' = "raised"
        /\ UNCHANGED <<tokenFile, sleeps>>
  /\ UNCHANGED <<categories, vendor, run_file0, ci, offset, response,
                 access_token, retries, http, sent, pages, fetched>>
  /\ UNCHANGED storeVars
  /\ UNCHANGED detailVars

\* the loop condition fails: return {}
Exhausted ==
  /\ pc = "attempt"
  /\ ~(retries < max_retries)
  /\ response' = EmptyDict
  /\ pages' = Append(pages, [kw |-> ci, offset |-> offset,
                             limit |-> limit, total |-> -1])
  /\ pc' = "returned"
  /\ UNCHANGED <<categories, vendor, run_file0, ci, offset, tokenFile,
                 fetched>>
  /\ UNCHANGED callVars
  /\ UNCHANGED storeVars
  /\ UNCHANGED detailVars

\* ----------------------------------------------------------- process_products
\* BatchData whose product_count is the page size
BatchData_CountLimit(products, off, lim) ==
  [metadata |-> [url |-> <<off, lim>>, offset |-> off, limit |-> lim,
                 product_count |-> lim],
   products |-> products]

BatchData(products, off, lim) ==
  [metadata |-> [url |-> <<off, lim>>, offset |-> off, limit |-> lim,
                 product_count |-> Len(products)],
   products |-> products]

\* Page that hands no batch to process_products before the next request
Page_Deferred ==
  /\ pc = "returned"
  /\ access_token' = 0
  /\ retries' = 0
  /\ http' = <<>>
  /\ sent' = NoRequest
  /\ sleeps' = <<>>
  /\ refreshes' = <<>>
  /\ IF response.empty
       THEN /\ ci' = ci + 1
            /\ pc' = "main"
            /\ UNCHANGED <<batch_data, file0, stored, store_result, printed,
                           fault>>
       ELSE /\ pc' = "advance"
            /\ UNCHANGED <<ci, batch_data, file0, stored, store_result,
                           printed, fault>>
  /\ UNCHANGED <<categories, vendor, run_file0, offset, response, tokenFile,
                 pages, fetched, file, existing_data, committed, faults,
                 disk, peer, appends>>
  /\ UNCHANGED detailVars
\* Page without `if not response: break`: the sentinel is stored as a batch
Page_StoresSentinel ==
  /\ pc = "returned"
  /\ access_token' = 0
  /\ retries' = 0
  /\ http' = <<>>
  /\ sent' = NoRequest
  /\ sleeps' = <<>>
  /\ refreshes' = <<>>
  /\ batch_data' = BatchData(response.Products, offset, limit)
  /\ file0' = file
  /\ stored' = "none"
  /\ store_result' = "unset"
  /\ printed' = <<>>
  /\ fault' = "none"
  /\ pc' = "store_read"
  /\ UNCHANGED ci
  /\ UNCHANGED <<categories, vendor, run_file0, offset, response, tokenFile,
                 pages, fetched, file, existing_data, committed, faults,
                 disk, peer, appends>>
  /\ UNCHANGED detailVars

\* _search_product has returned and its frame is gone;
\* `if not response: break`, else the call of process_products begins
Page ==
  /\ pc = "returned"
  /\ access_token' = 0
  /\ retries' = 0
  /\ http' = <<>>
  /\ sent' = NoRequest
  /\ sleeps' = <<>>
  /\ refreshes' = <<>>
  /\ IF response.empty
       THEN /\ ci' = ci + 1
            /\ pc' = "main"
            /\ UNCHANGED <<batch_data, file0, stored, store_result, printed,
                           fault>>
       ELSE /\ batch_data' = BatchData(response.Products, offset, limit)
            /\ file0' = file
            /\ stored' = "none"
            /\ store_result' = "unset"
            /\ printed' = <<>>
            /\ fault' = "none"
            /\ pc' = "store_read"
            /\ UNCHANGED ci
  /\ UNCHANGED <<categories, vendor, run_file0, offset, response, tokenFile,
                 pages, fetched, file, existing_data, committed, faults,
                 disk, peer, appends>>
  /\ UNCHANGED detailVars

\* LoadExisting with the JSONDecodeError handler lost: corrupt content raises
LoadExisting_NoRecovery(f) ==
  IF f.kind = "list" THEN [raises |-> FALSE, data |-> f.data]
  ELSE IF f.kind = "object" THEN [raises |-> FALSE, data |-> f.data]
  ELSE IF f.kind = "corrupt" THEN [raises |-> TRUE, data |-> <<>>]
  ELSE [raises |-> FALSE, data |-> <<>>]

\* LoadExisting without the list shim: the append on a dict raises
LoadExisting_NoShim(f) ==
  IF f.kind = "list" THEN [raises |-> FALSE, data |-> f.data]
  ELSE IF f.kind = "object" THEN [raises |-> TRUE, data |-> <<>>]
  ELSE [raises |-> FALSE, data |-> <<>>]

\* `existing_data = []`, then when the file exists json.load of it, the list
\* shim and the JSONDecodeError branch; raises tells whether an exception
\* leaves the inner try
LoadExisting(f) ==
  IF f.kind = "list" THEN [raises |-> FALSE, data |-> f.data]
  ELSE IF f.kind = "object" THEN [raises |-> FALSE, data |-> f.data]
  ELSE [raises |-> FALSE, data |-> <<>>]

\* AppendBatch that skips a batch the collection already holds
AppendBatch_Dedup(existing, b) ==
  IF \E i \in 1..Len(existing) : existing[i] = b
    THEN existing
    ELSE Append(existing, b)

\* existing_data.append(batch_data)
AppendBatch(existing, b) == Append(existing, b)

\* whether an I/O operation on a store file fails: it may on a flaky disk
IOFails == IF disk = "flaky" /\ faults < MaxFaults THEN {FALSE, TRUE}
           ELSE {FALSE}

\* the I/O operation `where` of the running store failed
IOError(where) ==
  /\ faults' = faults + 1
  /\ fault' = where

\* what process_products returns after the write: it ends without a return
\* statement
AppendedResult == "None"

\* what process_products returns after the except branch: it ends without a
\* return statement
FallbackResult == "None"

\* the except branch of process_products: print every product
Fallback ==
  /\ printed' = batch_data.products
  /\ stored' = "fallback"
  /\ store_result' = FallbackResult
  /\ pc' = "advance"

\* whether the text a process writes into f comes out garbled: it may when
\* another process wrote f after this one truncated it, and the bytes of
\* the two writes mix
Garbles(f) == IF f.kind = "list" THEN {FALSE, TRUE} ELSE {FALSE}

\* what the file holds after json.dump(existing, file) and the close
Written(existing, garbled) ==
  IF garbled THEN CorruptFile ELSE ListFile(existing)

\* the read of the existing collection and the append in memory
StoreRead ==
  /\ pc = "store_read"
  /\ \E failed \in (IF file.kind = "absent" THEN {FALSE} ELSE IOFails) :
       IF failed
         THEN /\ IOError("read")
              /\ Fallback
              /\ UNCHANGED existing_data
       ELSE IF LoadExisting(file).raises
         THEN /\ Fallback
              /\ UNCHANGED <<existing_data, fault, faults>>
         ELSE /\ existing_data' =
                   AppendBatch(LoadExisting(file).data, batch_data)
              /\ pc' = "store_open"
              /\ UNCHANGED <<stored, store_result, printed, fault, faults>>
  /\ UNCHANGED <<categories, vendor, run_file0, ci, offset, response,
                 tokenFile, pages, fetched, file, batch_data, file0,
                 committed, disk, peer, appends>>
  /\ UNCHANGED callVars
  /\ UNCHANGED detailVars

\* open(json_file_path, 'w'): the file is truncated, or the open fails
StoreOpen ==
  /\ pc = "store_open"
  /\ \E failed \in IOFails :
       IF failed
         THEN /\ IOError("open")
              /\ Fallback
              /\ UNCHANGED file
         ELSE /\ file' = CorruptFile
              /\ pc' = "store_dump"
              /\ UNCHANGED <<stored, store_result, printed, fault, faults>>
  /\ UNCHANGED <<categories, vendor, run_file0, ci, offset, response,
                 tokenFile, pages, fetched, batch_data, existing_data, file0,
                 committed, disk, peer, appends>>
  /\ UNCHANGED callVars
  /\ UNCHANGED detailVars

\* StoreDump that adds its batch to what another process wrote meanwhile
StoreDump_Appending ==
  /\ pc = "store_dump"
  /\ \E failed \in IOFails, garbled \in Garbles(file) :
       /\ IF failed
            THEN /\ IOError("dump")
                 /\ Fallback
                 /\ UNCHANGED <<file, committed>>
            ELSE /\ file' = IF file.kind = "list"
                           THEN ListFile(Append(file.data, batch_data))
                           ELSE Written(existing_data, garbled)
                 /\ committed' = Append(committed, batch_data)
                 /\ stored' = "ok"
                 /\ store_result' = AppendedResult
                 /\ pc' = "advance"
                 /\ UNCHANGED <<printed, fault, faults>>
  /\ UNCHANGED <<categories, vendor, run_file0, ci, offset, response,
                 tokenFile, pages, fetched, batch_data, existing_data, file0,
                 disk, peer, appends>>
  /\ UNCHANGED callVars
  /\ UNCHANGED detailVars

\* json.dump and the close of the file: the whole collection is written, or
\* the write fails part-way and leaves a partial text
StoreDump ==
  /\ pc = "store_dump"
  /\ \E failed \in IOFails, garbled \in Garbles(file) :
       /\ IF failed
            THEN /\ IOError("dump")
                 /\ Fallback
                 /\ UNCHANGED <<file, committed>>
            ELSE /\ file' = Written(existing_data, garbled)
                 /\ committed' = Append(committed, batch_data)
                 /\ stored' = "ok"
                 /\ store_result' = AppendedResult
                 /\ pc' = "advance"
                 /\ UNCHANGED <<printed, fault, faults>>
  /\ UNCHANGED <<categories, vendor, run_file0, ci, offset, response,
                 tokenFile, pages, fetched, batch_data, existing_data, file0,
                 disk, peer, appends>>
  /\ UNCHANGED callVars
  /\ UNCHANGED detailVars

\* StopPaging with > in place of >=
StopPaging_Strict(off, product_count) == off > product_count

\* `if offset >= product_count: break`
StopPaging(off, product_count) == off >= product_count

\* NextOffset that leaves the offset where it is
NextOffset_Stuck(off, lim) == off

\* `offset += limit`
NextOffset(off, lim) == off + lim

\* Advance that tests the total_count of the first page of the keyword
Advance_FirstTotal ==
  /\ pc = "advance"
  /\ offset' = NextOffset(offset, limit)
  /\ IF StopPaging(NextOffset(offset, limit), pages[1].total)
       THEN /\ ci' = ci + 1
            /\ pc' = "main"
       ELSE /\ pc' = "call"
            /\ UNCHANGED ci
  /\ response' = EmptyDict
  /\ batch_data' = NoBatch
  /\ existing_data' = <<>>
  /\ file0' = AbsentFile
  /\ stored' = "none"
  /\ store_result' = "unset"
  /\ fault' = "none"
  /\ UNCHANGED <<categories, vendor, run_file0, tokenFile, pages, fetched,
                 file, printed, committed, faults, disk, peer, appends>>
  /\ UNCHANGED callVars
  /\ UNCHANGED detailVars

\* process_products has returned and its frame is gone; offset += limit and
\* the test that ends the while loop, after which `response` is dead
Advance ==
  /\ pc = "advance"
  /\ offset' = NextOffset(offset, limit)
  /\ IF StopPaging(NextOffset(offset, limit), response.ProductsCount)
       THEN /\ ci' = ci + 1
            /\ pc' = "main"
       ELSE /\ pc' = "call"
            /\ UNCHANGED ci
  /\ response' = EmptyDict
  /\ batch_data' = NoBatch
  /\ existing_data' = <<>>
  /\ file0' = AbsentFile
  /\ stored' = "none"
  /\ store_result' = "unset"
  /\ fault' = "none"
  /\ UNCHANGED <<categories, vendor, run_file0, tokenFile, pages, fetched,
                 file, printed, committed, faults, disk, peer, appends>>
  /\ UNCHANGED callVars
  /\ UNCHANGED detailVars

\* the batches process_products is called with directly
DirectBatches ==
  {BatchData(products, off, limit) :
     products \in {<<>>, VendorItems(0, 1)}, off \in {0, limit}}

\* a direct call of process_products(products, offset, limit)
ProcessProducts ==
  /\ pc = "idle"
  /\ appends < MaxAppends
  /\ appends' = appends + 1
  /\ \E b \in DirectBatches : batch_data' = b
  /\ file0' = file
  /\ stored' = "none"
  /\ store_result' = "unset"
  /\ printed' = <<>>
  /\ fault' = "none"
  /\ pc' = "store_read"
  /\ UNCHANGED <<file, existing_data, committed, faults,
                 disk, peer, tokenFile>>
  /\ UNCHANGED searchVars
  /\ UNCHANGED callVars
  /\ UNCHANGED detailVars

\* the direct call has returned (None, on both paths) and its frame is gone
ProcessProductsReturn ==
  /\ pc = "advance"
  /\ pc' = "idle"
  /\ batch_data' = NoBatch
  /\ existing_data' = <<>>
  /\ file0' = AbsentFile
  /\ stored' = "none"
  /\ store_result' = "unset"
  /\ printed' = <<>>
  /\ fault' = "none"
  /\ UNCHANGED <<file, committed, faults, disk, peer, appends, tokenFile>>
  /\ UNCHANGED searchVars
  /\ UNCHANGED callVars
  /\ UNCHANGED detailVars

\* ------------------------------------------ a second process on the store
\* the second process before and between its calls of process_products
IdlePeer == [pc |-> "idle", batch_data |-> NoBatch, existing_data |-> <<>>,
             stored |-> "none", appends |-> 0]

\* what a step of the second process leaves alone besides the file
peerFrame == <<pc, tokenFile, batch_data, existing_data, file0, stored,
               store_result, printed, fault, disk, appends>>

\* the batches the second process appends
PeerBatches == {BatchData(VendorItems(0, 1), limit, limit)}

\* the second process calls process_products(products, offset, limit)
PeerProcessProducts ==
  /\ peer.pc = "idle"
  /\ peer.appends < MaxPeerAppends
  /\ \E b \in PeerBatches :
       peer' = [peer EXCEPT !.pc = "store_read", !.batch_data = b,
                            !.stored = "none", !.appends = @ + 1]
  /\ UNCHANGED <<file, committed, faults>>
  /\ UNCHANGED peerFrame
  /\ UNCHANGED searchVars
  /\ UNCHANGED callVars
  /\ UNCHANGED detailVars

\* its read of the existing collection and its append in memory
PeerRead ==
  /\ peer.pc = "store_read"
  /\ \E failed \in (IF file.kind = "absent" THEN {FALSE} ELSE IOFails) :
       IF failed \/ LoadExisting(file).raises
         THEN /\ peer' = [peer EXCEPT !.pc = "advance", !.stored = "fallback"]
              /\ faults' = IF failed THEN faults + 1 ELSE faults
         ELSE /\ peer' = [peer EXCEPT
                   !.pc = "store_open",
                   !.existing_data =
                      AppendBatch(LoadExisting(file).data, peer.batch_data)]
              /\ UNCHANGED faults
  /\ UNCHANGED <<file, committed>>
  /\ UNCHANGED peerFrame
  /\ UNCHANGED searchVars
  /\ UNCHANGED callVars
  /\ UNCHANGED detailVars

\* its open(json_file_path, 'w'): the file is truncated, or the open fails
PeerOpen ==
  /\ peer.pc = "store_open"
  /\ \E failed \in IOFails :
       IF failed
         THEN /\ peer' = [peer EXCEPT !.pc = "advance", !.stored = "fallback"]
              /\ faults' = faults + 1
              /\ UNCHANGED file
         ELSE /\ peer' = [peer EXCEPT !.pc = "store_dump"]
              /\ file' = CorruptFile
              /\ UNCHANGED faults
  /\ UNCHANGED committed
  /\ UNCHANGED peerFrame
  /\ UNCHANGED searchVars
  /\ UNCHANGED callVars
  /\ UNCHANGED detailVars

\* its json.dump and the close of the file
PeerDump ==
  /\ peer.pc = "store_dump"
  /\ \E failed \in IOFails, garbled \in Garbles(file) :
       /\ IF failed
            THEN /\ peer' = [peer EXCEPT !.pc = "advance",
                                         !.stored = "fallback"]
                 /\ faults' = faults + 1
                 /\ UNCHANGED <<file, committed>>
            ELSE /\ peer' = [peer EXCEPT !.pc = "advance", !.stored = "ok"]
                 /\ file' = Written(peer.existing_data, garbled)
                 /\ committed' = Append(committed, peer.batch_data)
                 /\ UNCHANGED faults
  /\ UNCHANGED peerFrame
  /\ UNCHANGED searchVars
  /\ UNCHANGED callVars
  /\ UNCHANGED detailVars

\* its call has returned and its frame is gone
PeerReturn ==
  /\ peer.pc = "advance"
  /\ peer' = [IdlePeer EXCEPT !.appends = peer.appends]
  /\ UNCHANGED <<file, committed, faults>>
  /\ UNCHANGED peerFrame
  /\ UNCHANGED searchVars
  /\ UNCHANGED callVars
  /\ UNCHANGED detailVars

\* ================================================== ProductDetailsAPI
\* the value of `{}` on the detail path
EmptyResponse == [empty |-> TRUE, kind |-> "none", product |-> 0]

\* the parsed bodies a 2xx detail response may carry for product number p:
\* one with a well-formed 'Product', one without the key, one whose
\* 'Product' is not a mapping, and the empty object
DetailBodies(p) ==
  {[empty |-> FALSE, kind |-> "product", product |-> p],
   [empty |-> FALSE, kind |-> "no_product", product |-> p],
   [empty |-> FALSE, kind |-> "bad_product", product |-> p],
   EmptyResponse}

EmptyMapped == [empty |-> TRUE, ManufacturerPartNumber |-> 0]

\* MapProductDetails that maps a 'Product' that is not a mapping to a record
MapProductDetails_Lenient(r) ==
  IF r.empty \/ r.kind = "no_product"
    THEN [raises |-> FALSE, value |-> EmptyMapped]
  ELSE [raises |-> FALSE,
        value |-> [empty |-> FALSE, ManufacturerPartNumber |-> r.product]]

\* map_product_details_to_structure: {} for a response without 'Product',
\* an exception when 'Product' is not a mapping, else the mapped record
MapProductDetails(r) ==
  IF r.empty \/ r.kind = "no_product"
    THEN [raises |-> FALSE, value |-> EmptyMapped]
  ELSE IF r.kind = "bad_product"
    THEN [raises |-> TRUE, value |-> EmptyMapped]
  ELSE [raises |-> FALSE,
        value |-> [empty |-> FALSE, ManufacturerPartNumber |-> r.product]]

\* for product_number in product_numbers
BulkNext ==
  /\ pc = "bulk"
  /\ IF pn <= Len(product_numbers)
       THEN pc' = "d_call"
       ELSE pc' = "done"
  /\ UNCHANGED <<tokenFile, detailVars>>
  /\ UNCHANGED searchVars
  /\ UNCHANGED callVars
  /\ UNCHANGED storeVars

\* get_product_details up to the retry loop: get_access_token returns None
\* when the token file is absent, and the call returns {} at once
DGetAccessToken ==
  /\ pc = "d_call"
  /\ retries' = 0
  /\ http' = <<>>
  /\ sent' = NoRequest
  /\ sleeps' = <<>>
  /\ refreshes' = <<>>
  /\ IF tokenFile = 0
       THEN /\ api_response' = EmptyResponse
            /\ pc' = "d_returned"
            /\ UNCHANGED access_token
       ELSE /\ access_token' = tokenFile
            /\ pc' = "d_attempt"
            /\ UNCHANGED api_response
  /\ UNCHANGED <<tokenFile, product_numbers, pn, results, mapped_product,
                 mapped_file, raw_file, existing_mapped_data,
                 existing_raw_data, mfile0, rfile0, mcommitted, rcommitted,
                 dstored>>
  /\ UNCHANGED searchVars
  /\ UNCHANGED storeVars

\* IsNotFound that never recognises the status
IsNotFound_Never(st) == FALSE

\* `if response.status_code == 404`, before raise_for_status and again in the
\* HTTPError handler
IsNotFound(st) == st = 404

\* SleepsBeforeRetry without the guard: a sleep after every failure
SleepsBeforeRetry_Always(r) == TRUE

\* `if retries < max_retries` that guards the sleep of both except blocks
SleepsBeforeRetry(r) == r < max_retries_details

BackoffDetails(r) == Pow(backoff_factor_details, r)

\* one pass of `while retries < max_retries` of get_product_details
DAttempt ==
  /\ pc = "d_attempt"
  /\ retries < max_retries_details
  /\ sent' = Sent
  /\ \/ \E body \in DetailBodies(product_numbers[pn]) :
          /\ http' = Append(http, Request(200))
          /\ api_response' = body
          /\ pc' = "d_returned"
          /\ UNCHANGED <<retries, sleeps>>
     \/ \E st \in FailStatuses \cup {404} :
          /\ http' = Append(http, Request(st))
          /\ IF IsNotFound(st)
               THEN /\ api_response' = EmptyResponse
                    /\ pc' = "d_returned"
                    /\ UNCHANGED <<retries, sleeps>>
               ELSE /\ retries' = retries + 1
                    /\ sleeps' =
                         IF SleepsBeforeRetry(retries + 1)
                           THEN Append(sleeps,
                                  [at |-> "backoff",
                                   secs |-> BackoffDetails(retries + 1)])
                           ELSE sleeps
                    /\ UNCHANGED <<api_response, pc>>
  /\ UNCHANGED <<tokenFile, access_token, refreshes, product_numbers, pn,
                 results, mapped_product, mapped_file, raw_file,
                 existing_mapped_data, existing_raw_data, mfile0, rfile0,
                 mcommitted, rcommitted, dstored>>
  /\ UNCHANGED searchVars
  /\ UNCHANGED storeVars

\* the loop condition fails: return {}
DExhausted ==
  /\ pc = "d_attempt"
  /\ ~(retries < max_retries_details)
  /\ api_response' = EmptyResponse
  /\ pc' = "d_returned"
  /\ UNCHANGED <<tokenFile, product_numbers, pn, results, mapped_product,
                 mapped_file, raw_file, existing_mapped_data,
                 existing_raw_data, mfile0, rfile0, mcommitted, rcommitted,
                 dstored>>
  /\ UNCHANGED searchVars
  /\ UNCHANGED callVars
  /\ UNCHANGED storeVars

\* the entry process_and_store_product_details adds to the mapped file
ResultData == [metadata |-> [product_number |-> product_numbers[pn]],
               mapped_product |-> mapped_product,
               raw_response |-> api_response]

\* the entry it adds to the raw file
RawData == [metadata |-> [product_number |-> product_numbers[pn]],
            raw_response |-> api_response]

\* process_and_store_product_details after get_product_details returned (its
\* frame is gone): `if not api_response`, the mapping and its two early
\* returns, else the store begins
DProcess ==
  /\ pc = "d_returned"
  /\ access_token' = 0
  /\ retries' = 0
  /\ http' = <<>>
  /\ sent' = NoRequest
  /\ sleeps' = <<>>
  /\ refreshes' = <<>>
  /\ dstored' = "none"
  /\ fault' = "none"
  /\ mfile0' = mapped_file
  /\ rfile0' = raw_file
  /\ IF \/ api_response.empty
        \/ MapProductDetails(api_response).raises
        \/ MapProductDetails(api_response).value.empty
       THEN /\ mapped_product' = EmptyMapped
            /\ pc' = "bulk_append"
       ELSE /\ mapped_product' = MapProductDetails(api_response).value
            /\ pc' = "m_read"
  /\ UNCHANGED <<tokenFile, product_numbers, pn, results, api_response,
                 mapped_file, raw_file, existing_mapped_data,
                 existing_raw_data, mcommitted, rcommitted>>
  /\ UNCHANGED searchVars
  /\ UNCHANGED <<file, batch_data, existing_data, file0, stored,
                 store_result, printed, committed, faults,
                 disk, peer, appends>>

\* the except branch of the store: return {}
DStoreFails ==
  /\ mapped_product' = EmptyMapped
  /\ dstored' = "failed"
  /\ pc' = "bulk_append"

detailFrame == <<tokenFile, product_numbers, pn, results, api_response,
                 mfile0, rfile0>>

\* the read of the mapped collection and the append in memory
MRead ==
  /\ pc = "m_read"
  /\ \E failed \in (IF mapped_file.kind = "absent" THEN {FALSE} ELSE IOFails) :
       IF failed
         THEN /\ IOError("read")
              /\ DStoreFails
              /\ UNCHANGED existing_mapped_data
       ELSE IF LoadExisting(mapped_file).raises
         THEN /\ DStoreFails
              /\ UNCHANGED <<existing_mapped_data, fault, faults>>
         ELSE /\ existing_mapped_data' =
                   AppendBatch(LoadExisting(mapped_file).data, ResultData)
              /\ pc' = "m_open"
              /\ UNCHANGED <<mapped_product, dstored, fault, faults>>
  /\ UNCHANGED <<mapped_file, raw_file, existing_raw_data, mcommitted,
                 rcommitted>>
  /\ UNCHANGED detailFrame
  /\ UNCHANGED searchVars
  /\ UNCHANGED callVars
  /\ UNCHANGED <<file, batch_data, existing_data, file0, stored,
                 store_result, printed, committed, disk, peer, appends>>

\* open(mapped_file_path, 'w')
MOpen ==
  /\ pc = "m_open"
  /\ \E failed \in IOFails :
       IF failed
         THEN /\ IOError("open")
              /\ DStoreFails
              /\ UNCHANGED mapped_file
         ELSE /\ mapped_file' = CorruptFile
              /\ pc' = "m_dump"
              /\ UNCHANGED <<mapped_product, dstored, fault, faults>>
  /\ UNCHANGED <<raw_file, existing_mapped_data, existing_raw_data,
                 mcommitted, rcommitted>>
  /\ UNCHANGED detailFrame
  /\ UNCHANGED searchVars
  /\ UNCHANGED callVars
  /\ UNCHANGED <<file, batch_data, existing_data, file0, stored,
                 store_result, printed, committed, disk, peer, appends>>

\* json.dump of the mapped collection and the close of the file
MDump ==
  /\ pc = "m_dump"
  /\ \E failed \in IOFails :
       IF failed
         THEN /\ IOError("dump")
              /\ DStoreFails
              /\ UNCHANGED <<mapped_file, mcommitted>>
         ELSE /\ mapped_file' = ListFile(existing_mapped_data)
              /\ mcommitted' = Append(mcommitted, ResultData)
              /\ pc' = "r_read"
              /\ UNCHANGED <<mapped_product, dstored, fault, faults>>
  /\ UNCHANGED <<raw_file, existing_mapped_data, existing_raw_data,
                 rcommitted>>
  /\ UNCHANGED detailFrame
  /\ UNCHANGED searchVars
  /\ UNCHANGED callVars
  /\ UNCHANGED <<file, batch_data, existing_data, file0, stored,
                 store_result, printed, committed, disk, peer, appends>>

\* the read of the raw collection and the append in memory
RRead ==
  /\ pc = "r_read"
  /\ \E failed \in (IF raw_file.kind = "absent" THEN {FALSE} ELSE IOFails) :
       IF failed
         THEN /\ IOError("read")
              /\ DStoreFails
              /\ UNCHANGED existing_raw_data
       ELSE IF LoadExisting(raw_file).raises
         THEN /\ DStoreFails
              /\ UNCHANGED <<existing_raw_data, fault, faults>>
         ELSE /\ existing_raw_data' =
                   AppendBatch(LoadExisting(raw_file).data, RawData)
              /\ pc' = "r_open"
              /\ UNCHANGED <<mapped_product, dstored, fault, faults>>
  /\ UNCHANGED <<mapped_file, raw_file, existing_mapped_data, mcommitted,
                 rcommitted>>
  /\ UNCHANGED detailFrame
  /\ UNCHANGED searchVars
  /\ UNCHANGED callVars
  /\ UNCHANGED <<file, batch_data, existing_data, file0, stored,
                 store_result, printed, committed, disk, peer, appends>>

\* open(raw_file_path, 'w')
ROpen ==
  /\ pc = "r_open"
  /\ \E failed \in IOFails :
       IF failed
         THEN /\ IOError("open")
              /\ DStoreFails
              /\ UNCHANGED raw_file
         ELSE /\ raw_file' = CorruptFile
              /\ pc' = "r_dump"
              /\ UNCHANGED <<mapped_product, dstored, fault, faults>>
  /\ UNCHANGED <<mapped_file, existing_mapped_data, existing_raw_data,
                 mcommitted, rcommitted>>
  /\ UNCHANGED detailFrame
  /\ UNCHANGED searchVars
  /\ UNCHANGED callVars
  /\ UNCHANGED <<file, batch_data, existing_data, file0, stored,
                 store_result, printed, committed, disk, peer, appends>>

\* json.dump of the raw collection, the close of the file and
\* `return mapped_product`
RDump ==
  /\ pc = "r_dump"
  /\ \E failed \in IOFails :
       IF failed
         THEN /\ IOError("dump")
              /\ DStoreFails
              /\ UNCHANGED <<raw_file, rcommitted>>
         ELSE /\ raw_file' = ListFile(existing_raw_data)
              /\ rcommitted' = Append(rcommitted, RawData)
              /\ dstored' = "ok"
              /\ pc' = "bulk_append"
              /\ UNCHANGED <<mapped_product, fault, faults>>
  /\ UNCHANGED <<mapped_file, existing_mapped_data, existing_raw_data,
                 mcommitted>>
  /\ UNCHANGED detailFrame
  /\ UNCHANGED searchVars
  /\ UNCHANGED callVars
  /\ UNCHANGED <<file, batch_data, existing_data, file0, stored,
                 store_result, printed, committed, disk, peer, appends>>

\* process_and_store_product_details has returned (its frame is gone):
\* `if mapped_product: results.append(mapped_product)`, then time.sleep(1)
BulkAppend ==
  /\ pc = "bulk_append"
  /\ results' = IF mapped_product.empty THEN results
                ELSE Append(results, mapped_product)
  /\ sleeps' = Append(sleeps, [at |-> "bulk", secs |-> 1])
  /\ pn' = pn + 1
  /\ pc' = "bulk"
  /\ api_response' = EmptyResponse
  /\ mapped_product' = EmptyMapped
  /\ existing_mapped_data' = <<>>
  /\ existing_raw_data' = <<>>
  /\ mfile0' = AbsentFile
  /\ rfile0' = AbsentFile
  /\ dstored' = "none"
  /\ fault' = "none"
  /\ UNCHANGED <<tokenFile, product_numbers, mapped_file, raw_file,
                 mcommitted, rcommitted>>
  /\ UNCHANGED <<access_token, retries, http, sent, refreshes>>
  /\ UNCHANGED searchVars
  /\ UNCHANGED <<file, batch_data, existing_data, file0, stored,
                 store_result, printed, committed, faults,
                 disk, peer, appends>>

\* the process is killed: what is on disk stays, its memory is gone
Crash ==
  /\ pc \notin {"done", "raised", "crashed", "idle"}
  /\ pc' = "crashed"
  /\ ci' = 1
  /\ offset' = 0
  /\ response' = EmptyDict
  /\ pages' = <<>>
  /\ fetched' = <<>>
  /\ access_token' = 0
  /\ retries' = 0
  /\ http' = <<>>
  /\ sent' = NoRequest
  /\ sleeps' = <<>>
  /\ refreshes' = <<>>
  /\ batch_data' = NoBatch
  /\ existing_data' = <<>>
  /\ file0' = AbsentFile
  /\ stored' = "none"
  /\ store_result' = "unset"
  /\ printed' = <<>>
  /\ fault' = "none"
  /\ pn' = 1
  /\ results' = <<>>
  /\ api_response' = EmptyResponse
  /\ mapped_product' = EmptyMapped
  /\ existing_mapped_data' = <<>>
  /\ existing_raw_data' = <<>>
  /\ mfile0' = AbsentFile
  /\ rfile0' = AbsentFile
  /\ dstored' = "none"
  /\ UNCHANGED <<categories, vendor, run_file0, product_numbers, tokenFile,
                 file, mapped_file, raw_file, committed, mcommitted,
                 rcommitted, faults, disk, peer, appends>>

\* ------------------------------------------------------------ specification
\* a collection left by an earlier run
PriorBatch == BatchData(VendorItems(0, 1), 0, limit)

\* an entry left in a detail file by an earlier run
PriorEntry == [metadata |-> [product_number |-> 1],
               raw_response |-> [empty |-> FALSE, kind |-> "product",
                                 product |-> 1]]

\* what a store file may hold when the program starts
StartFiles(prior) ==
  {AbsentFile, ListFile(<<prior>>), ObjectFile(prior), CorruptFile}

\* the state shared by the programs when one starts
InitCommon ==
  /\ ci = 1
  /\ offset = 0
  /\ response = EmptyDict
  /\ access_token = 0
  /\ retries = 0
  /\ http = <<>>
  /\ sent = NoRequest
  /\ sleeps = <<>>
  /\ refreshes = <<>>
  /\ pages = <<>>
  /\ fetched = <<>>
  /\ run_file0 = file
  /\ batch_data = NoBatch
  /\ existing_data = <<>>
  /\ file0 = AbsentFile
  /\ stored = "none"
  /\ store_result = "unset"
  /\ printed = <<>>
  /\ committed = IF file.kind = "list" THEN file.data ELSE <<>>
  /\ fault = "none"
  /\ faults = 0
  /\ appends = 0
  /\ peer = IdlePeer
  /\ pn = 1
  /\ results = <<>>
  /\ api_response = EmptyResponse
  /\ mapped_product = EmptyMapped
  /\ existing_mapped_data = <<>>
  /\ existing_raw_data = <<>>
  /\ mfile0 = AbsentFile
  /\ rfile0 = AbsentFile
  /\ mcommitted = IF mapped_file.kind = "list" THEN mapped_file.data ELSE <<>>
  /\ rcommitted = IF raw_file.kind = "list" THEN raw_file.data ELSE <<>>
  /\ dstored = "none"

\* main.py run as a program, search_products(categories), on a healthy disk
\* and on a collection that is absent or was left by an earlier run
InitSearch ==
  /\ pc = "main"
  /\ disk = "healthy"
  /\ vendor = Totals
  /\ categories \in {[i \in 1..n |-> i] : n \in 0..MaxKeywords}
  /\ tokenFile \in {0, 1}
  /\ file \in {AbsentFile, ListFile(<<PriorBatch>>)}
  /\ product_numbers = <<>>
  /\ mapped_file = AbsentFile
  /\ raw_file = AbsentFile
  /\ InitCommon

\* process_products called directly, on any content of the file and on a
\* disk whose operations may fail
InitStore ==
  /\ pc = "idle"
  /\ disk = "flaky"
  /\ vendor = Totals
  /\ categories = <<>>
  /\ tokenFile = 0
  /\ file \in StartFiles(PriorBatch)
  /\ product_numbers = <<>>
  /\ mapped_file = AbsentFile
  /\ raw_file = AbsentFile
  /\ InitCommon

\* product_details_api.py: bulk_get_product_details(product_numbers), on any
\* content of its two files and on a disk whose operations may fail
InitDetails ==
  /\ pc = "bulk"
  /\ disk = "flaky"
  /\ vendor = Totals
  /\ product_numbers \in {[i \in 1..n |-> i] : n \in 0..MaxProducts}
  /\ tokenFile \in {0, 1}
  /\ mapped_file \in StartFiles(PriorEntry)
  /\ raw_file \in StartFiles(PriorEntry)
  /\ categories = <<>>
  /\ file = AbsentFile
  /\ InitCommon

Next ==
  \/ ForCategory
  \/ GetAccessToken
  \/ Attempt
  \/ TokenUpdate
  \/ Exhausted
  \/ Page
  \/ StoreRead
  \/ StoreOpen
  \/ StoreDump
  \/ Advance
  \/ Crash

Spec == InitSearch /\ [][Next]_vars

NextDetail ==
  \/ BulkNext
  \/ DGetAccessToken
  \/ DAttempt
  \/ DExhausted
  \/ DProcess
  \/ MRead
  \/ MOpen
  \/ MDump
  \/ RRead
  \/ ROpen
  \/ RDump
  \/ BulkAppend
  \/ Crash

SpecDetail == InitDetails /\ [][NextDetail]_vars

\* search_products on one keyword of which the vendor holds more pages
InitPaging ==
  /\ pc = "main"
  /\ disk = "healthy"
  /\ vendor = TotalsUpTo(MaxDeepPages)
  /\ categories = <<1>>
  /\ tokenFile = 1
  /\ file = AbsentFile
  /\ product_numbers = <<>>
  /\ mapped_file = AbsentFile
  /\ raw_file = AbsentFile
  /\ InitCommon

SpecPaging == InitPaging /\ [][Next]_vars

\* both request paths: the calls of _search_product of a run of
\* search_products on one keyword, or the calls of get_product_details of a
\* run of bulk_get_product_details
SpecClient == (InitPaging \/ InitDetails) /\ [][Next \/ NextDetail]_vars

\* the stores: process_products called directly, and the two stores of the
\* detail program
NextStore ==
  \/ ProcessProducts
  \/ StoreRead
  \/ StoreOpen
  \/ StoreDump
  \/ ProcessProductsReturn
  \/ NextDetail

SpecStore == (InitStore \/ InitDetails) /\ [][NextStore]_vars

\* two processes that call process_products on the same api_responses.json,
\* on a healthy disk
InitRace ==
  /\ pc = "idle"
  /\ disk = "healthy"
  /\ vendor = Totals
  /\ categories = <<>>
  /\ tokenFile = 0
  /\ file \in {AbsentFile, ListFile(<<PriorBatch>>)}
  /\ product_numbers = <<>>
  /\ mapped_file = AbsentFile
  /\ raw_file = AbsentFile
  /\ InitCommon

NextRace ==
  \/ ProcessProducts
  \/ StoreRead
  \/ StoreOpen
  \/ StoreDump
  \/ ProcessProductsReturn
  \/ PeerProcessProducts
  \/ PeerRead
  \/ PeerOpen
  \/ PeerDump
  \/ PeerReturn

SpecRace == InitRace /\ [][NextRace]_vars

\* ============================================================== properties
\* the while loop of the keyword before ci has ended and `pages` is its log
KeywordDone == pc = "main" /\ ci > 1 /\ pages # <<>>

\* every page fetch of the keyword succeeded and reported the total t
AllPagesReport(t) == \A i \in 1..Len(pages) : pages[i].total = t

OffsetsInOrder == \A i \in 1..Len(pages) : pages[i].offset = (i - 1) * limit

\* C1 (as claimed): when every page fetch of a keyword succeeds and reports
\* the same total_count t >= 0, search_products issues exactly
\* ceil(t / limit) page requests for it, at offsets 0, limit, 2*limit, ...
C1_PageRequestsCeil ==
  \A t \in Totals :
    (KeywordDone /\ AllPagesReport(t)) =>
      (Len(pages) = CeilDiv(t, limit) /\ OffsetsInOrder)

\* C1 (amended): as C1, but the number of page requests is
\* max(1, ceil(t / limit)): the first page is always requested, also when
\* the total_count it reports is 0
C1_PageRequestsAtLeastOne ==
  \A t \in Totals :
    (KeywordDone /\ AllPagesReport(t)) =>
      (Len(pages) = Max(1, CeilDiv(t, limit)) /\ OffsetsInOrder)

C1_Witness ==
  KeywordDone /\ AllPagesReport(limit + 1) /\ Len(pages) = 2

\* C2: while the first page of the running keyword is a successful fetch that
\* reported total_count 0, no step appends a batch to the collection and no
\* step raises
C2_ZeroTotalZeroBatches ==
  [][(pages # <<>> /\ pages[1].total = 0) =>
       (committed' = committed /\ pc' # "raised")]_vars

\* the backoff sleeps of the running call, in order
BackoffSleeps ==
  LET s == SelectSeq(sleeps, LAMBDA e : e.at = "backoff")
  IN  [i \in 1..Len(s) |-> s[i].secs]

\* the token_update calls the retry loop of the running call made
RetryRefreshes == SelectSeq(refreshes, LAMBDA r : r.at = "retry")

\* a call of _search_product has ended and every HTTP attempt of it failed
SearchCallFailed ==
  /\ http # <<>>
  /\ \/ pc = "raised"
     \/ pc = "returned" /\ response.empty

\* C3: a call of _search_product all of whose HTTP attempts fail makes
\* exactly max_retries token_update calls and exactly max_retries backoff
\* sleeps of backoff_factor^1 .. backoff_factor^max_retries seconds, and
\* then returns {} without raising
C3_SearchRetryExhaustion ==
  SearchCallFailed =>
    /\ pc = "returned"
    /\ Len(RetryRefreshes) = max_retries
    /\ BackoffSleeps = [i \in 1..max_retries |-> Pow(backoff_factor, i)]

\* a call of get_product_details has ended and every HTTP attempt of it
\* failed with an error other than 404
DetailCallFailed ==
  /\ pc = "d_returned"
  /\ http # <<>>
  /\ \A i \in 1..Len(http) : http[i].status \in FailStatuses

C5_NotFoundShortCircuit ==
  \A i \in 1..Len(http) :
    http[i].status = 404 =>
      /\ i = Len(http)
      /\ pc = "d_returned"
      /\ api_response.empty
      /\ Len(sleeps) = http[i].slept
      /\ refreshes = <<>>
      /\ (i = 1 => sleeps = <<>>)

C5_Witness ==
  /\ pc = "d_returned"
  /\ Len(http) = 2
  /\ http[2].status = 404
  /\ Len(sleeps) = 1

\* C6: an HTTP request issued after a token_update of the call completed
\* carries the token that is in the token file at that moment
C6_RequestsCarryLatestToken ==
  sent.refreshed => sent.token = sent.latest

\* C7: a token_update that raises during a retry of _search_product does
\* not make the call raise
C7_RefreshFailureAbsorbed ==
  (refreshes # <<>> /\ refreshes[Len(refreshes)] = Refresh("retry", "raised"))
    => pc # "raised"

\* the collection a reader finds in a file
Collection(f) == IF f.kind \in {"list", "object"} THEN f.data ELSE <<>>

\* process_products has completed its write
AppendCompleted == pc = "advance" /\ stored = "ok"

\* C8: when the file held a valid collection C (or was absent, C empty) and
\* process_products completes its write, the file holds exactly C followed
\* by the new batch, also when C already has an equal batch
C8_AppendExact ==
  (AppendCompleted /\ file0.kind \in {"list", "absent"}) =>
    /\ file = ListFile(Collection(file0) \o <<batch_data>>)
    /\ Len(file.data) = Len(Collection(file0)) + 1

C8_Witness ==
  /\ AppendCompleted
  /\ file0.kind = "list"
  /\ \E i \in 1..Len(file0.data) : file0.data[i] = batch_data
  /\ Len(file.data) = Len(file0.data) + 1

\* C9: outside a write in progress, also after a failed write and after a
\* crash, every batch whose append completed is in the file at its position
C9_PriorBatchesKept ==
  pc \notin {"store_dump", "m_dump", "r_dump"} =>
    /\ IsPrefix(committed, Collection(file))
    /\ IsPrefix(mcommitted, Collection(mapped_file))
    /\ IsPrefix(rcommitted, Collection(raw_file))

\* C10: an append that finds unparsable content in the file and meets no
\* I/O failure succeeds and leaves a collection of exactly the new batch
C10_CorruptionRecovery ==
  /\ (pc = "advance" /\ file0.kind = "corrupt" /\ fault = "none") =>
       (stored = "ok" /\ file = ListFile(<<batch_data>>))
  /\ (pc = "bulk_append" /\ dstored # "none" /\ fault = "none") =>
       /\ dstored = "ok"
       /\ mfile0.kind = "corrupt" => mapped_file = ListFile(<<ResultData>>)
       /\ rfile0.kind = "corrupt" => raw_file = ListFile(<<RawData>>)

C10_Witness ==
  pc = "advance" /\ file0.kind = "corrupt" /\ fault = "none" /\ stored = "ok"

\* C11: when a read or a write of the collection file fails inside
\* process_products, the call returns to its caller without raising, has
\* printed every product of the batch, and returns a value that differs from
\* the one a successful append returns
C11_WriteFailureReported ==
  (pc = "advance" /\ stored = "fallback") =>
    /\ fault # "none"
    /\ printed = batch_data.products
    /\ store_result # AppendedResult

\* the collection in the file is the one the run began with, followed by one
\* batch per page fetched, in request order
AllFetchedStored ==
  LET c == Collection(file)
      n0 == Len(Collection(run_file0))
  IN  /\ Len(c) = n0 + Len(fetched)
      /\ \A i \in 1..Len(fetched) :
           c[n0 + i].metadata.offset = fetched[i].offset

SentinelReturned ==
  pages # <<>> /\ pages[Len(pages)].total = -1

\* C13: a page request that ends with the sentinel is the last request of
\* its keyword, the for loop moves to the next keyword, and every keyword,
\* also one that follows a failed keyword, is paginated from offset 0
C13_KeywordIndependence ==
  /\ \A i \in 1..Len(pages) :
       pages[i].total = -1 => i = Len(pages)
  /\ SentinelReturned =>
       /\ pc \in {"returned", "main", "done"}
       /\ pc = "returned" => ci = pages[Len(pages)].kw
       /\ pc = "main" => ci = pages[Len(pages)].kw + 1
       /\ pc = "done" => ci = Len(categories) + 1
  /\ (pc \in {"call", "attempt", "token_update"} /\ pages = <<>>) =>
       offset = 0
  /\ pages # <<>> => pages[1].offset = 0

\* the first keyword fetched no page, its first request having ended with
\* the sentinel, and the second keyword has fetched its first page
C13_Witness ==
  /\ ci = 2
  /\ pc = "returned"
  /\ ~response.empty
  /\ pages = <<[kw |-> 2, offset |-> 0, limit |-> limit, total |-> 1]>>
  /\ fetched = <<PageFetched(0, limit, 1)>>

\* within the keyword, each page request is at the offset of the one before
\* it plus the page size
OffsetsAdvance ==
  \A i \in 1..(Len(pages) - 1) :
    /\ pages[i + 1].offset = pages[i].offset + limit
    /\ pages[i + 1].offset > pages[i].offset

\* a page is requested after another only if that one reported a total_count
\* above the advanced offset
LoopEndsAtOnce ==
  \A i \in 1..(Len(pages) - 1) :
    pages[i].total > pages[i].offset + limit

\* search_products has ended: it returned, raised, or the process was killed
Terminated == pc \in {"done", "raised", "crashed"}

\* the constant that bounds every total_count reported in the run
MaxTotal == CHOOSE t \in vendor : \A u \in vendor : u <= t

\* the page requests a keyword makes at most
MaxPageCount == CeilDiv(MaxTotal, limit)

\* the steps one pass of the while loop of search_products can still take:
\* two for every retry left, then the return, the store and the advance
PassRank ==
  CASE pc = "call" -> 2 * max_retries + 10
    [] pc = "attempt" -> 2 * (max_retries - retries) + 7
    [] pc = "token_update" -> 2 * (max_retries - retries) + 8
    [] pc = "returned" -> 6
    [] pc = "store_read" -> 5
    [] pc = "store_open" -> 4
    [] pc = "store_dump" -> 3
    [] pc = "advance" -> 2
    [] OTHER -> 0

\* a bound on the steps search_products can still take: those of the
\* keywords left, of the pages left of the keyword, and of the running pass
Rank ==
  IF Terminated THEN 0
  ELSE LET pass == 2 * max_retries + 11
           keyword == (MaxPageCount + 1) * pass + 2
           pagesLeft == MaxPageCount - offset \div limit
       IN  IF pc = "main"
             THEN (Len(categories) + 1 - ci) * keyword + keyword - 1
             ELSE (Len(categories) + 1 - ci) * keyword
                    + pagesLeft * pass + PassRank

\* C14: within a keyword the requested offset grows by exactly the page size
\* from one request to the next, no request follows a page that reported
\* total_count <= the advanced offset or that ended with the sentinel, and
\* with total_counts bounded by a constant search_products terminates: a
\* bound on its remaining steps is never negative and every step lowers it
C14_PaginationTerminates ==
  /\ [](OffsetsAdvance /\ LoopEndsAtOnce /\ Rank >= 0
         /\ offset \div limit <= MaxPageCount)
  /\ [][Rank' < Rank]_vars

C14_Witness ==
  /\ pc = "done"
  /\ Len(categories) = 2
  /\ Len(pages) = 2
  /\ pages[2].offset = limit

\* C15: when a search call or a detail lookup starts while the token file is
\* absent, its first step performs a credential refresh, and if the call goes
\* on to its request, the request carries the token the refresh stored
C15_MissingTokenRefreshed ==
  [][(pc \in {"call", "d_call"} /\ tokenFile = 0 /\ pc' # "crashed") =>
       /\ refreshes' # <<>>
       /\ pc' \in {"attempt", "d_attempt"} =>
            (tokenFile' # 0 /\ access_token' = tokenFile')]_vars

\* the requests of the running call that failed and were counted
FailedRequests ==
  Cardinality({i \in 1..Len(http) : http[i].status \in FailStatuses})

\* the retry budget of the running call
Budget == IF pc \in {"d_attempt", "d_returned"} THEN max_retries_details
          ELSE max_retries

\* C16: a 2xx response is the last request of its call, which returns the
\* parsed body with no sleep and no refresh after it; the attempt counter of
\* a call counts the failures of that call only, starting from 0, and a call
\* returns the sentinel for exhaustion only after max_retries failures of
\* its own
C16_SuccessReturnsAtOnce ==
  /\ \A i \in 1..Len(http) :
       http[i].status = 200 =>
         /\ i = Len(http)
         /\ pc \in {"returned", "d_returned"}
         /\ pc = "returned" => ~response.empty
         /\ Len(sleeps) = http[i].slept
         /\ sent.refreshed = Refreshed
  /\ pc \in {"attempt", "d_attempt"} =>
       (retries = FailedRequests /\ retries = Len(http))
  /\ (SearchCallFailed /\ pc = "returned") => Len(http) = max_retries
  /\ DetailCallFailed => Len(http) = max_retries_details
  /\ Len(http) <= Budget

\* the second call of a run succeeds at its first attempt, after a call that
\* had failures
C16_Witness ==
  /\ pc = "returned"
  /\ Len(fetched) = 2
  /\ Len(http) = 1
  /\ http[1].status = 200
  /\ tokenFile = 2

\* the product number of the running iteration was fetched, mapped and
\* stored
RecordSucceeded ==
  /\ ~api_response.empty
  /\ api_response.kind = "product"
  /\ dstored = "ok"

\* the returned list is in input order, without repetition
ResultsInInputOrder ==
  \A i, j \in 1..Len(results) :
    i < j =>
      results[i].ManufacturerPartNumber < results[j].ManufacturerPartNumber

\* C17: bulk_get_product_details never raises; whatever happened to a
\* product number, the loop goes on to the next one, and the list gains the
\* mapped record of the product number exactly when it succeeded, so that
\* the returned list holds the records of the successes in input order
C17_RecordFailureNonFatal ==
  /\ [](pc # "raised" /\ ResultsInInputOrder
         /\ (pc = "done" => pn = Len(product_numbers) + 1))
  /\ [][(pc = "bulk_append" /\ pc' # "crashed") =>
           /\ pc' = "bulk"
           /\ pn' = pn + 1
           /\ results' =
                IF RecordSucceeded
                  THEN Append(results,
                         [empty |-> FALSE,
                          ManufacturerPartNumber |-> product_numbers[pn]])
                  ELSE results]_vars

\* the first product number failed and the second is in the returned list
C17_Witness ==
  /\ pc = "done"
  /\ Len(product_numbers) = 2
  /\ results = <<[empty |-> FALSE, ManufacturerPartNumber |-> 2]>>

\* C18: when a run of search_products that began on an absent file has
\* returned, the collection holds exactly one batch per page fetched, in
\* request order; the offset and limit of each batch are those of its
\* request and its product_count is the number of its items
C18_BatchesMirrorPages ==
  (pc = "done" /\ run_file0 = AbsentFile) =>
    LET c == Collection(file)
    IN  /\ Len(c) = Len(fetched)
        /\ \A i \in 1..Len(fetched) :
             /\ c[i].metadata.offset = fetched[i].offset
             /\ c[i].metadata.limit = fetched[i].limit
             /\ c[i].metadata.product_count = fetched[i].items
             /\ Len(c[i].products) = fetched[i].items

\* total_count limit + 1: two batches, of limit items and of one item
C18_Witness ==
  /\ pc = "done"
  /\ run_file0 = AbsentFile
  /\ categories = <<1>>
  /\ fetched = <<PageFetched(0, limit, limit + 1),
                 PageFetched(limit, limit, limit + 1)>>
  /\ Len(file.data) = 2
  /\ file.data[2].metadata.product_count = 1

\* C19: on both paths the backoff sleep and the credential refresh follow a
\* failed attempt only when another attempt follows: a call that returns the
\* sentinel after max_retries failures has made max_retries - 1 backoff
\* sleeps and, on the search path, max_retries - 1 refreshes
C19_SleepOnlyBeforeRetry ==
  /\ (SearchCallFailed /\ pc = "returned") =>
       /\ Len(BackoffSleeps) = max_retries - 1
       /\ Len(RetryRefreshes) = max_retries - 1
  /\ DetailCallFailed =>
       /\ Len(BackoffSleeps) = max_retries_details - 1
       /\ refreshes = <<>>

\* the last page request of the keyword was answered
LastPageFetched == pages # <<>> /\ pages[Len(pages)].total # -1

\* C20: after a fetched page the keyword goes on to the next page iff the
\* total_count of that page is above the advanced offset, whatever the pages
\* before it reported
C20_StopUsesLatestPage ==
  /\ \A i \in 1..(Len(pages) - 1) :
       pages[i].total > pages[i].offset + limit
  /\ (pc \in {"main", "done"} /\ LastPageFetched) =>
       pages[Len(pages)].total <= pages[Len(pages)].offset + limit
  /\ (pc = "call" /\ pages # <<>>) =>
       /\ LastPageFetched
       /\ offset = pages[Len(pages)].offset + limit
       /\ pages[Len(pages)].total > offset

\* the second page reported more than the first, which extended the
\* pagination past the two pages of the first total_count, and the third
\* reported less than the second, which ended it before the fourth page
C20_Witness ==
  /\ pc = "done"
  /\ Len(pages) = 3
  /\ pages[1].total = limit + 1
  /\ pages[2].total = 3 * limit + 1
  /\ pages[3].total = 2 * limit + 1

\* C21: an append that finds a single JSON object in the file and meets no
\* I/O failure succeeds and leaves a collection of two elements: that object
\* unchanged, then the new batch; so do both stores of the detail path
C21_SingleObjectShim ==
  /\ (pc = "advance" /\ file0.kind = "object" /\ fault = "none") =>
       /\ stored = "ok"
       /\ file = ListFile(<<file0.data[1], batch_data>>)
       /\ Len(file.data) = 2
  /\ (pc = "bulk_append" /\ dstored # "none" /\ fault = "none") =>
       /\ mfile0.kind = "object" =>
            mapped_file = ListFile(<<mfile0.data[1], ResultData>>)
       /\ rfile0.kind = "object" =>
            raw_file = ListFile(<<rfile0.data[1], RawData>>)

C21_Witness ==
  /\ pc = "advance"
  /\ file0 = ObjectFile(PriorBatch)
  /\ stored = "ok"
  /\ file.data[1] = PriorBatch
  /\ file.data[2] = batch_data

\* the two processes are in their first calls, both have read the same
\* collection C and both have completed their writes without error
BothAppendedTo(C) ==
  /\ appends = 1 /\ pc = "advance" /\ stored = "ok"
  /\ existing_data = Append(C, batch_data)
  /\ peer.appends = 1 /\ peer.pc = "advance" /\ peer.stored = "ok"
  /\ peer.existing_data = Append(C, peer.batch_data)

\* C22: process_products takes no lock: when two processes append to the same
\* file and both read the same collection C before they write, both appends
\* complete without error and the file ends with fewer batches than C plus
\* the two appended ones, so a batch whose append completed is lost
C22_RaceLosesBatch ==
  BothAppendedTo(Collection(run_file0)) =>
    /\ Len(committed) = Len(Collection(run_file0)) + 2
    /\ Len(Collection(file)) < Len(committed)

C22_Witness ==
  /\ BothAppendedTo(Collection(run_file0))
  /\ run_file0 = ListFile(<<PriorBatch>>)
  /\ batch_data # peer.batch_data
  /\ file = ListFile(<<PriorBatch, peer.batch_data>>)
  /\ committed = <<PriorBatch, batch_data, peer.batch_data>>

\* C23 (as claimed): one call of _search_product or get_product_details
\* issues at most max_retries requests, and a call in which every request
\* failed with a retryable error has issued exactly max_retries requests
\* when it ends
C23_BoundedAttempts ==
  /\ Len(http) <= Budget
  /\ retries <= Budget
  /\ (SearchCallFailed
        /\ \A i \in 1..Len(http) : http[i].status \in SearchFailStatuses) =>
       Len(http) = max_retries
  /\ (DetailCallFailed /\ \A i \in 1..Len(http) : http[i].status # 404) =>
       Len(http) = max_retries_details

\* C24 (as claimed): when process_and_store_product_details has returned,
\* either the mapped and the raw collection have each gained exactly one
\* entry and the call returned the non-empty mapped record, or neither file
\* has changed and the call returned {}; so collections of equal length
\* before the call have equal length after it
C24_DetailStoreAtomic ==
  pc = "bulk_append" =>
    /\ \/ /\ ~mapped_product.empty
          /\ Len(Collection(mapped_file)) = Len(Collection(mfile0)) + 1
          /\ Len(Collection(raw_file)) = Len(Collection(rfile0)) + 1
       \/ /\ mapped_product.empty
          /\ mapped_file = mfile0
          /\ raw_file = rfile0
    /\ Len(Collection(mfile0)) = Len(Collection(rfile0)) =>
         Len(Collection(mapped_file)) = Len(Collection(raw_file))

\* the lookup gave nothing to store: get_product_details returned {} (not
\* found, retries exhausted, no token file), or the mapping of its response
\* is empty or raises
LookupFailed ==
  api_response.empty \/ api_response.kind \in {"no_product", "bad_product"}

\* C25: a page fetch that returns the sentinel is followed by no call of
\* process_products and no change of the search file; a detail lookup and
\* the handling of a failed one (not found, exhaustion, missing token file,
\* empty or raising mapping) start no store and change neither detail file
C25_FailedFetchKeepsStores ==
  [][/\ (pc = "returned" /\ response.empty) =>
          (pc' # "store_read" /\ file' = file /\ committed' = committed)
     /\ (\/ pc \in {"d_call", "d_attempt"}
         \/ pc = "d_returned" /\ LookupFailed
         \/ pc = "bulk_append" /\ dstored = "none") =>
          /\ pc' \notin {"m_read", "m_open", "m_dump", "r_read", "r_open",
                         "r_dump"}
          /\ mapped_file' = mapped_file
          /\ raw_file' = raw_file
          /\ dstored' = "none"]_vars

\* the mapping of a fetched response raised and the files are as they were
C25_Witness ==
  /\ pc = "bulk_append"
  /\ api_response.kind = "bad_product"
  /\ dstored = "none"
  /\ mapped_product.empty
  /\ mfile0.kind = "list"
  /\ mapped_file = mfile0
  /\ raw_file = rfile0

TypeOK == pc \in {"idle", "main", "call", "attempt", "token_update", "returned",
                  "store_read", "store_open", "store_dump", "advance",
                  "bulk", "d_call", "d_attempt", "d_returned", "m_read",
                  "m_open", "m_dump", "r_read", "r_open", "r_dump",
                  "bulk_append", "done", "raised", "crashed"}
====
